---- MODULE Spec2Model ----
(***************************************************************************)
(* Genre classification core of spotify_genre_playlister.py:               *)
(* tag normalisation, the TTL cache of per-artist genres, the tiered       *)
(* evidence gathering of genres_for_track and the scored bucketizer.       *)
(*                                                                         *)
(* Strings are TLA+ strings; Head, Tail, SubSeq, Len and \o act on them    *)
(* character by character.  Scores are kept in units of 1/20, so that the  *)
(* products of a source weight (tenths) and a role weight (halves) are     *)
(* integers.  Time is in whole seconds.                                    *)
(***************************************************************************)
EXTENDS Integers, Sequences, FiniteSets, TLC

VARIABLES cache, now, args, last

vars == <<cache, now, args, last>>

(***************************************************************************)
(* Bounds of the model                                                     *)
(***************************************************************************)
MaxLen == 3          \* longest raw string handed to normalize_genre
MaxApply == 2        \* successive applications of normalize_genre
MaxPairs == 3        \* longest (tag, score) list handed to bucketize_scored
MaxEpochs == 1       \* the clock makes at most this many long jumps
MaxSkew == 2         \* ... and at most this many single seconds after a jump

(***************************************************************************)
(* Characters and strings                                                  *)
(***************************************************************************)
Whitespace == {" ", "\t"}

UpperChars == "ABCDEFGHIJKLMNOPQRSTUVWXYZ"
LowerChars == "abcdefghijklmnopqrstuvwxyz"
Digits == "0123456789"

\* code-point order of the characters the model uses
CharOrder == "\t &-/" \o Digits \o UpperChars \o "_" \o LowerChars

CharAt(s, i) == SubSeq(s, i, i)

IndexOf(c, s) ==
    IF \E i \in 1..Len(s) : CharAt(s, i) = c
    THEN CHOOSE i \in 1..Len(s) : CharAt(s, i) = c
    ELSE 0

Chars(s) == {CharAt(s, i) : i \in 1..Len(s)}

LowerOf == [c \in Chars(UpperChars) |-> CharAt(LowerChars, IndexOf(c, UpperChars))]
CodePoint == [c \in Chars(CharOrder) |-> IndexOf(c, CharOrder)]
WordChars == Chars(LowerChars) \cup Chars(UpperChars) \cup Chars(Digits) \cup {"_"}

\* str.lower() on one character
LowerChar(c) == IF c \in DOMAIN LowerOf THEN LowerOf[c] ELSE c

RECURSIVE Lower(_)
Lower(s) == IF s = "" THEN "" ELSE LowerChar(Head(s)) \o Lower(Tail(s))

RECURSIVE LStrip(_)
LStrip(s) ==
    IF s = "" THEN ""
    ELSE IF Head(s) \in Whitespace THEN LStrip(Tail(s)) ELSE s

RECURSIVE RStrip(_)
RStrip(s) ==
    IF s = "" THEN ""
    ELSE IF CharAt(s, Len(s)) \in Whitespace
         THEN RStrip(SubSeq(s, 1, Len(s) - 1))
         ELSE s

\* str.strip()
Strip(s) == RStrip(LStrip(s))

\* re.sub(r"[/_]", " ", s)
RECURSIVE SubSlashUnderscore(_)
SubSlashUnderscore(s) ==
    IF s = "" THEN ""
    ELSE (IF Head(s) \in {"/", "_"} THEN " " ELSE Head(s))
         \o SubSlashUnderscore(Tail(s))

\* re.sub(r"\s+", " ", s)
RECURSIVE CollapseWhitespace(_)
CollapseWhitespace(s) ==
    IF s = "" THEN ""
    ELSE IF Head(s) \in Whitespace
         THEN " " \o CollapseWhitespace(LStrip(s))
         ELSE Head(s) \o CollapseWhitespace(Tail(s))

\* needle in s
Contains(s, needle) ==
    \E i \in 1..(Len(s) - Len(needle) + 1) :
        SubSeq(s, i, i + Len(needle) - 1) = needle

IsWordChar(c) == c \in WordChars

\* re.search(r"\bword\b", s) for a word made of word characters
ContainsWord(s, word) ==
    \E i \in 1..(Len(s) - Len(word) + 1) :
        /\ SubSeq(s, i, i + Len(word) - 1) = word
        /\ i = 1 \/ ~IsWordChar(CharAt(s, i - 1))
        /\ i + Len(word) - 1 = Len(s) \/ ~IsWordChar(CharAt(s, i + Len(word)))

RECURSIVE StrLess(_, _)
\* a < b on Python strings (lexicographic by code point)
StrLess(a, b) ==
    IF b = "" THEN FALSE
    ELSE IF a = "" THEN TRUE
    ELSE IF Head(a) = Head(b) THEN StrLess(Tail(a), Tail(b))
    ELSE CodePoint[Head(a)] < CodePoint[Head(b)]

(***************************************************************************)
(* Tag normaliser                                                          *)
(***************************************************************************)
norm(s) == CollapseWhitespace(SubSlashUnderscore(Lower(Strip(s))))

replacements(g) ==
    CASE g = "hip hop" -> "hip-hop"
      [] g = "r&b" -> "rnb"
      [] g = "alt rock" -> "alternative rock"
      [] g = "alt-rock" -> "alternative rock"
      [] g = "synth pop" -> "synthpop"
      [] g = "indie pop" -> "indie-pop"
      [] g = "indie rock" -> "indie-rock"
      [] g = "electro pop" -> "electropop"
      [] g = "drum and bass" -> "drum & bass"
      [] g = "dnb" -> "drum & bass"
      [] g = "edm" -> "electronic"
      [] g = "emo pop" -> "emo-pop"
      [] g = "pop punk" -> "pop-punk"
      [] OTHER -> g

normalize_genre(g) == replacements(norm(g))

GENERIC_TAGS ==
    {"seen live", "favorite", "favorites", "best", "awesome", "good", "great",
     "all", "american", "british", "canadian", "uk", "usa", "united states"}

(***************************************************************************)
(* Specification of the normaliser alone: a raw string is drawn, then      *)
(* normalize_genre is applied to it and to its own output.                 *)
(***************************************************************************)
NormAlphabet == {" ", "\t", "/", "_", "&", "D", "b", "d", "n", "r"}

RECURSIVE StringsUpTo(_)
StringsUpTo(n) ==
    IF n = 0 THEN {""}
    ELSE LET S == StringsUpTo(n - 1) IN
         S \cup {s \o c : s \in S, c \in NormAlphabet}

NoCache == <<>>
\* the command lines: which of the three flags are given
CommandLines == SUBSET {"--use-all-artists", "--infer-related", "--use-musicbrainz"}

\* add_argument(..., action="store_true", default=...)
store_true(given, default) == IF given THEN TRUE ELSE default

\* ap.parse_args(): --use-all-artists is declared with default=True
parse_args(argv) ==
    [use_all_artists |-> store_true("--use-all-artists" \in argv, TRUE),
     infer_related |-> store_true("--infer-related" \in argv, FALSE),
     use_musicbrainz |-> store_true("--use-musicbrainz" \in argv, FALSE)]

NoArgs == parse_args({})

InitNorm ==
    /\ cache = NoCache
    /\ now = 0
    /\ args = NoArgs
    /\ \E x \in StringsUpTo(MaxLen) :
           last = [op |-> "input", ret |-> x, applied |-> 0]

Normalize ==
    /\ last.op \in {"input", "normalize_genre"}
    /\ last.applied < MaxApply
    /\ last' = [op |-> "normalize_genre", arg |-> last.ret,
                ret |-> normalize_genre(last.ret),
                applied |-> last.applied + 1]
    /\ UNCHANGED <<cache, now, args>>

NextNorm == Normalize

SpecNorm == InitNorm /\ [][NextNorm]_vars

(***************************************************************************)
(* Counter: a dict in insertion order, kept as a sequence of <<key, n>>    *)
(***************************************************************************)
None == "None"

CounterKeys(c) == {c[i][1] : i \in 1..Len(c)}

CounterGet(c, k) ==
    IF k \in CounterKeys(c)
    THEN c[CHOOSE i \in 1..Len(c) : c[i][1] = k][2]
    ELSE 0

\* c[k] += w
CounterAdd(c, k, w) ==
    IF k \in CounterKeys(c)
    THEN [i \in 1..Len(c) |-> IF c[i][1] = k THEN <<k, c[i][2] + w>> ELSE c[i]]
    ELSE Append(c, <<k, w>>)

(***************************************************************************)
(* Bucket classifier                                                       *)
(***************************************************************************)
RockFamily ==
    {"rock", "classic rock", "hard rock", "soft rock", "arena rock",
     "alternative rock", "alt rock", "alt-rock", "modern rock", "indie rock",
     "indie-rock", "garage rock", "psychedelic rock", "progressive rock",
     "prog rock", "art rock", "glam rock", "punk", "pop punk", "pop-punk",
     "skate punk", "hardcore punk", "post-punk", "punk rock", "street punk",
     "emo", "emo-pop", "screamo", "post-hardcore", "metal", "heavy metal",
     "metalcore", "deathcore", "death metal", "black metal", "thrash metal",
     "prog metal", "nu metal", "power metal", "speed metal", "doom metal",
     "sludge metal", "grunge", "post-grunge", "noise rock", "shoegaze",
     "ska punk", "folk punk", "celtic punk"}

CountryFamily ==
    {"country", "classic country", "modern country", "country pop",
     "alt-country", "alternative country", "americana", "outlaw country",
     "texas country", "red dirt", "bluegrass", "honky tonk", "country rock",
     "southern rock", "folk", "indie folk", "singer-songwriter", "roots rock",
     "cowboy", "nashville sound"}

HipHopFamily ==
    {"hip-hop", "hip hop", "rap", "gangsta rap", "east coast hip hop",
     "west coast hip hop", "southern hip hop", "trap", "mumble rap",
     "conscious hip hop", "alternative hip hop", "old school hip hop",
     "boom bap", "g-funk", "crunk", "emo rap", "cloud rap", "drill",
     "uk drill"}

ClassicalFamily ==
    {"classical", "neoclassical", "contemporary classical", "orchestral",
     "symphony", "chamber music", "opera", "classical piano", "piano",
     "solo piano", "instrumental", "baroque", "romantic era",
     "modern classical", "film score", "cinematic", "ambient classical"}

MusicalFamily ==
    {"soundtrack", "score", "ost", "original soundtrack", "musicals",
     "broadway", "show tunes", "theatre", "film soundtrack",
     "movie soundtrack", "tv soundtrack", "video game music",
     "anime soundtrack"}

ElectronicFamily ==
    {"electronic", "edm", "dance", "electro", "house", "deep house",
     "tech house", "progressive house", "techno", "trance",
     "progressive trance", "uplifting trance", "dubstep", "drum and bass",
     "drum & bass", "dnb", "breakbeat", "jungle", "garage", "uk garage",
     "ambient", "downtempo", "chillout", "trip hop", "synthwave", "synthpop",
     "electropop", "electronica", "industrial", "ebm", "darkwave", "new wave",
     "disco", "funk", "future funk", "vaporwave", "hardstyle", "hardcore",
     "gabber", "big beat", "future bass", "melodic bass", "bedroom pop",
     "indie-pop"}

\* CANON_TO_BUCKET.get(g)
CANON_TO_BUCKET(g) ==
    CASE g \in RockFamily -> "rock"
      [] g \in CountryFamily -> "country"
      [] g \in HipHopFamily -> "hip-hop"
      [] g \in ClassicalFamily -> "classical"
      [] g \in MusicalFamily -> "musical"
      [] g \in ElectronicFamily -> "electronic"
      [] OTHER -> None

order == <<"rock", "country", "hip-hop", "classical", "musical", "electronic", "other">>

\* order.index(b) if b in order else 999
OrderIndex(b) ==
    IF \E i \in 1..Len(order) : order[i] = b
    THEN (CHOOSE i \in 1..Len(order) : order[i] = b) - 1
    ELSE 999

\* the sort key without its second component
BucketKeyLess_score_only(a, b) == a[2] > b[2]

\* the sort key (-kv[1], order.index(kv[0])) of bucketize_scored
BucketKeyLess(a, b) ==
    \/ a[2] > b[2]
    \/ a[2] = b[2] /\ OrderIndex(a[1]) < OrderIndex(b[1])

RECURSIVE InsertBucket(_, _)
InsertBucket(e, s) ==
    IF s = <<>> THEN <<e>>
    ELSE IF BucketKeyLess(e, Head(s)) THEN <<e>> \o s
    ELSE <<Head(s)>> \o InsertBucket(e, Tail(s))

RECURSIVE SortedBuckets(_)
\* sorted(bucket_scores.items(), key=...), stable
SortedBuckets(s) ==
    IF s = <<>> THEN <<>>
    ELSE InsertBucket(s[Len(s)], SortedBuckets(SubSeq(s, 1, Len(s) - 1)))

RECURSIVE BucketScores(_, _)
\* the loop that fills bucket_scores
BucketScores(weighted_genres, acc) ==
    IF weighted_genres = <<>> THEN acc
    ELSE LET g == Head(weighted_genres)[1]
             s == Head(weighted_genres)[2]
             b == CANON_TO_BUCKET(g)
         IN BucketScores(Tail(weighted_genres),
                         IF b # None THEN CounterAdd(acc, b, s) ELSE acc)

\* bucketize_scored taking the last bucket of the sorted list
bucketize_scored_last(weighted_genres) ==
    LET bucket_scores == BucketScores(weighted_genres, <<>>) IN
    IF bucket_scores = <<>> THEN "other"
    ELSE SortedBuckets(bucket_scores)[Len(bucket_scores)][1]

bucketize_scored(weighted_genres) ==
    LET bucket_scores == BucketScores(weighted_genres, <<>>) IN
    IF bucket_scores = <<>> THEN "other"
    ELSE SortedBuckets(bucket_scores)[1][1]

(***************************************************************************)
(* Specification of the classifier alone: a (tag, score) list in any       *)
(* order is drawn and bucketize_scored is applied to it.                   *)
(***************************************************************************)
BucketTags == {"trap", "classical", "alternative rock", "soundtrack", "pop"}
BucketScoreValues == {10, 20}

RECURSIVE PairListsUpTo(_)
PairListsUpTo(n) ==
    IF n = 0 THEN {<<>>}
    ELSE LET S == PairListsUpTo(n - 1) IN
         S \cup {Append(s, <<g, w>>) : s \in S, g \in BucketTags, w \in BucketScoreValues}

InitBucket ==
    /\ cache = NoCache
    /\ now = 0
    /\ args = NoArgs
    /\ \E wg \in PairListsUpTo(MaxPairs) : last = [op |-> "input", ret |-> wg]

Bucketize ==
    /\ last.op = "input"
    /\ last' = [op |-> "bucketize_scored", arg |-> last.ret,
                ret |-> bucketize_scored(last.ret)]
    /\ UNCHANGED <<cache, now, args>>

NextBucket == Bucketize

SpecBucket == InitBucket /\ [][NextBucket]_vars

(***************************************************************************)
(* Cache store.  The cache maps an artist id to an entry: none,            *)
(* a bare list (old format) or {"genres": ..., "ts": ...}.  A cache file   *)
(* written by something else may also hold a string or a number for an     *)
(* artist, or an object whose "ts" is not a number.                        *)
(***************************************************************************)
CACHE_TTL == 60 * 60 * 24 * 14

ArtistIds == {"a1", "a2"}

NoEntry == [shape |-> "absent"]
ListEntry(genres) == [shape |-> "list", genres |-> genres]
DictEntry(genres, ts) == [shape |-> "dict", genres |-> genres, ts |-> ts]
\* a non-empty string or a non-zero number
ScalarEntry == [shape |-> "scalar"]
\* {"genres": ..., "ts": "yesterday"}
TextTsEntry(genres) == [shape |-> "dict_text_ts", genres |-> genres]

Miss == [hit |-> FALSE, genres |-> <<>>]
Hit(genres) == [hit |-> TRUE, genres |-> genres]
\* the call raised: AttributeError from ent.get on a scalar, TypeError from
\* time.time() - ent.get("ts", 0) on a "ts" that is not a number
Raised == [hit |-> FALSE, genres |-> <<>>, raised |-> TRUE]

\* "if not ent": no entry, or an empty list
Falsy(ent) ==
    \/ ent.shape = "absent"
    \/ ent.shape = "list" /\ ent.genres = <<>>

\* cache_put that stamps the entry with the seconds left of the TTL
cache_put_countdown(c, aid, genres, t) ==
    [c EXCEPT ![aid] = DictEntry(genres, CACHE_TTL - t)]

\* cache[aid] = {"genres": genres, "ts": time.time()}
cache_put(c, aid, genres, t) == [c EXCEPT ![aid] = DictEntry(genres, t)]

\* cache_get with the expiry test written ">="
cache_get_ge(c, aid, t) ==
    LET ent == c[aid] IN
    IF Falsy(ent) THEN [ret |-> Miss, cache |-> c]
    ELSE IF ent.shape = "list"
         THEN [ret |-> Miss, cache |-> cache_put(c, aid, ent.genres, t)]
    ELSE IF ent.shape \in {"scalar", "dict_text_ts"} THEN [ret |-> Raised, cache |-> c]
    ELSE IF t - ent.ts >= CACHE_TTL THEN [ret |-> Miss, cache |-> c]
    ELSE [ret |-> Hit(ent.genres), cache |-> c]

\* cache_get that drops the entry it finds expired
cache_get_evicts(c, aid, t) ==
    LET ent == c[aid] IN
    IF Falsy(ent) THEN [ret |-> Miss, cache |-> c]
    ELSE IF ent.shape = "list"
         THEN [ret |-> Miss, cache |-> cache_put(c, aid, ent.genres, t)]
    ELSE IF ent.shape \in {"scalar", "dict_text_ts"} THEN [ret |-> Raised, cache |-> c]
    ELSE IF t - ent.ts > CACHE_TTL
         THEN [ret |-> Miss, cache |-> [c EXCEPT ![aid] = NoEntry]]
    ELSE [ret |-> Hit(ent.genres), cache |-> c]

\* cache_get at time t: the value returned and the cache it leaves
cache_get(c, aid, t) ==
    LET ent == c[aid] IN
    IF Falsy(ent) THEN [ret |-> Miss, cache |-> c]
    ELSE IF ent.shape = "list"
         THEN [ret |-> Miss, cache |-> cache_put(c, aid, ent.genres, t)]
    ELSE IF ent.shape \in {"scalar", "dict_text_ts"} THEN [ret |-> Raised, cache |-> c]
    ELSE IF t - ent.ts > CACHE_TTL THEN [ret |-> Miss, cache |-> c]
    ELSE [ret |-> Hit(ent.genres), cache |-> c]

(***************************************************************************)
(* The clock: it advances by one second or by a second less than the TTL. *)
(***************************************************************************)
ClockJump == CACHE_TTL - 1

CanTick(d) ==
    IF d = 1 THEN now % ClockJump < MaxSkew
    ELSE d = ClockJump /\ now \div ClockJump < MaxEpochs

Tick ==
    /\ \E d \in {1, ClockJump} :
           /\ CanTick(d)
           /\ now' = now + d
    /\ last' = [op |-> "tick"]
    /\ UNCHANGED <<cache, args>>

(***************************************************************************)
(* Specification of the cache store alone: entries as load_cache may find  *)
(* them, then any sequence of cache_get, cache_put and clock ticks.        *)
(***************************************************************************)
StoredLists == {<<>>, <<"trap">>, <<"classical", "usa">>}

LoadedEntries ==
    {NoEntry, ScalarEntry, TextTsEntry(<<"trap">>)}
    \cup {ListEntry(l) : l \in StoredLists}

\* the cache file: not there, not JSON, or a JSON object
CacheFiles ==
    {[kind |-> "missing"], [kind |-> "unparsable"]}
    \cup {[kind |-> "object", entries |-> f] : f \in [ArtistIds -> LoadedEntries]}

\* load_cache: {} when the file is missing or json.load raises
load_cache(file) ==
    IF file.kind \in {"missing", "unparsable"} THEN [aid \in ArtistIds |-> NoEntry]
    ELSE file.entries

InitCache ==
    /\ \E file \in CacheFiles :
           /\ cache = load_cache(file)
           /\ last = [op |-> "load_cache", file |-> file.kind]
    /\ now = 0
    /\ args = NoArgs

CacheGet ==
    \E aid \in ArtistIds :
        LET r == cache_get(cache, aid, now) IN
        /\ cache' = r.cache
        /\ last' = [op |-> "cache_get", aid |-> aid, ent |-> cache[aid],
                    t |-> now, ret |-> r.ret]
        /\ UNCHANGED <<now, args>>

CachePut ==
    \E aid \in ArtistIds, genres \in StoredLists :
        /\ cache' = cache_put(cache, aid, genres, now)
        /\ last' = [op |-> "cache_put", aid |-> aid, ent |-> cache[aid],
                    t |-> now, genres |-> genres]
        /\ UNCHANGED <<now, args>>

NextCache == CacheGet \/ CachePut \/ Tick

SpecCache == InitCache /\ [][NextCache]_vars

(***************************************************************************)
(* Weights.  ARTIST_WEIGHTS is in halves (1.0 = 2), WEIGHTS_SOURCE in      *)
(* tenths (1.0 = 10); a score is in twentieths.                            *)
(***************************************************************************)
ARTIST_WEIGHTS(role) == IF role = "primary" THEN 2 ELSE 1

WEIGHTS_SOURCE(source) ==
    CASE source = "spotify_artist" -> 10
      [] source = "alias" -> 9
      [] source = "spotify_related" -> 6
      [] source = "musicbrainz" -> 5
      [] source = "name_signal" -> 8

\* a source weight used on its own as a score
Twentieths(w) == 2 * w

(***************************************************************************)
(* Evidence providers                                                      *)
(***************************************************************************)
ALIAS_GENRES(name) ==
    CASE name = "Macklemore" -> <<"hip-hop", "rap">>
      [] name = "Macklemore & Ryan Lewis" -> <<"hip-hop", "rap">>
      [] name = "The Piano Guys" -> <<"classical", "pop">>
      [] name = "Hans Zimmer" -> <<"soundtrack">>
      [] name = "Ramin Djawadi" -> <<"soundtrack">>
      [] name = "Lorne Balfe" -> <<"soundtrack">>
      [] name = "Andrea Bocelli" -> <<"classical", "opera">>
      [] name = "Yiruma" -> <<"classical">>
      [] name = "Imagine Dragons" -> <<"alternative rock", "pop">>
      [] name = "Sia" -> <<"electronic", "pop">>
      [] name = "Blackbear" -> <<"hip-hop", "pop">>
      [] name = "Lewis Capaldi" -> <<"pop">>
      [] name = "Huey Lewis & The News" -> <<"rock", "pop">>
      [] name = "OK Go" -> <<"alternative rock", "pop">>
      [] name = "Snow Patrol" -> <<"alternative rock", "rock">>
      [] OTHER -> <<>>

RECURSIVE NormalizeAll(_)
\* [normalize_genre(g) for g in genres]
NormalizeAll(genres) ==
    IF genres = <<>> THEN <<>>
    ELSE <<normalize_genre(Head(genres))>> \o NormalizeAll(Tail(genres))

genres_from_alias(artist_name) == NormalizeAll(ALIAS_GENRES(artist_name))

name_signal_genres(artist_name) ==
    LET a == Lower(artist_name) IN
    IF \E tok \in {"original broadway cast", "cast company", "broadway"} :
           Contains(a, tok)
    THEN <<"musicals">>
    ELSE IF \/ \E tok \in {"orchestra", "symphony", "philharmonic"} :
                   Contains(a, tok)
            \/ \E w \in {"debussy", "rachmaninov", "mozart", "beethoven",
                         "vivaldi", "bocelli", "einaudi", "yiruma"} :
                   ContainsWord(a, w)
    THEN <<"classical">>
    ELSE <<>>

RECURSIVE CountAll(_, _)
\* Counter(genres)
CountAll(genres, acc) ==
    IF genres = <<>> THEN acc
    ELSE CountAll(Tail(genres), CounterAdd(acc, Head(genres), 1))

RECURSIVE InsertByCount(_, _)
InsertByCount(e, s) ==
    IF s = <<>> THEN <<e>>
    ELSE IF e[2] > Head(s)[2] THEN <<e>> \o s
    ELSE <<Head(s)>> \o InsertByCount(e, Tail(s))

RECURSIVE MostCommon(_)
\* Counter.most_common(): by count, first seen first among equals
MostCommon(c) ==
    IF c = <<>> THEN <<>>
    ELSE InsertByCount(c[Len(c)], MostCommon(SubSeq(c, 1, Len(c) - 1)))

RECURSIVE Flatten(_)
Flatten(lists) ==
    IF lists = <<>> THEN <<>> ELSE Head(lists) \o Flatten(Tail(lists))

Take(s, n) == SubSeq(s, 1, IF Len(s) < n THEN Len(s) ELSE n)

\* a provider answer that stands for a raised exception
Failure == [ok |-> FALSE]
Answer(v) == [ok |-> TRUE, value |-> v]

\* infer_from_related, given what sp.artist_related_artists answers:
\* Failure, or the genre lists of the related artists
infer_from_related(answer) ==
    IF ~answer.ok THEN <<>>
    ELSE LET genres == NormalizeAll(Flatten(Take(answer.value, 10)))
             top == Take(MostCommon(CountAll(genres, <<>>)), 3)
         IN [i \in 1..Len(top) |-> top[i][1]]

\* what infer_from_related appends to infer_from_related._errors
infer_from_related_errors(answer, artist_id) ==
    IF answer.ok THEN <<>> ELSE <<"Related artists for " \o artist_id>>

\* mb_search_artist, given what the search answers: the id or None
mb_search_artist(answer) == IF answer.ok THEN answer.value ELSE None

\* mb_artist_genres, given what the tag request answers
mb_artist_genres(answer) ==
    IF ~answer.ok THEN <<>>
    ELSE NormalizeAll(SelectSeq(answer.value,
             LAMBDA n : n # "" /\ Lower(n) \notin GENERIC_TAGS))

CHUNK == 50

RECURSIVE chunked(_, _)
chunked(seq, size) ==
    IF seq = <<>> THEN <<>>
    ELSE <<Take(seq, size)>> \o chunked(SubSeq(seq, size + 1, Len(seq)), size)

\* the artists sp.artists(chunk) returns: the requested ids the catalog
\* knows, in request order, each with its raw genres
ArtistsOf(chunk, catalog) ==
    LET known == SelectSeq(chunk, LAMBDA aid : catalog[aid].ok) IN
    [i \in 1..Len(known) |-> [id |-> known[i], genres |-> catalog[known[i]].value]]

RECURSIVE StoreGenres(_, _)
\* for a in res: out[a["id"]] = [normalize_genre(g) for g in a["genres"]]
StoreGenres(res, out) ==
    IF res = <<>> THEN out
    ELSE LET a == res[Len(res)] IN
         (a.id :> NormalizeAll(a.genres)) @@ StoreGenres(SubSeq(res, 1, Len(res) - 1), out)

RECURSIVE SetDefaults(_, _)
\* for aid in chunk: out.setdefault(aid, [])
SetDefaults(chunk, out) ==
    IF chunk = <<>> THEN out
    ELSE SetDefaults(SubSeq(chunk, 1, Len(chunk) - 1), out) @@ (chunk[Len(chunk)] :> <<>>)

EmptyDict == [aid \in {} |-> <<>>]

\* sp.artists(chunk) has a null among the artists it returns
HasUnknown(chunk, catalog) == \E i \in 1..Len(chunk) : ~catalog[chunk[i]].ok

RECURSIVE ArtistsBefore(_, _)
\* the artists the loop has stored when it reaches the first null
ArtistsBefore(chunk, catalog) ==
    IF chunk = <<>> \/ ~catalog[Head(chunk)].ok THEN <<>>
    ELSE <<[id |-> Head(chunk), genres |-> catalog[Head(chunk)].value]>>
         \o ArtistsBefore(Tail(chunk), catalog)

RECURSIVE FetchChunks(_, _, _)
\* the loop over the chunks; acc holds out and the requests sent so far
FetchChunks(chunks, sp, acc) ==
    IF chunks = <<>> THEN acc
    ELSE LET chunk == Head(chunks)
             req == [svc |-> "artists", ids |-> chunk]
             next ==
                 IF sp.mode = "ok"
                 THEN [requests |-> Append(acc.requests, req),
                       out |-> StoreGenres(ArtistsOf(chunk, sp.catalog), acc.out)]
                 ELSE IF sp.mode = "retry"
                 THEN [requests |-> acc.requests \o <<req, req>>,
                       out |-> StoreGenres(ArtistsOf(chunk, sp.catalog), acc.out)]
                 ELSE IF sp.mode = "null" /\ ~HasUnknown(chunk, sp.catalog)
                 THEN [requests |-> Append(acc.requests, req),
                       out |-> StoreGenres(ArtistsOf(chunk, sp.catalog), acc.out)]
                 ELSE IF sp.mode = "null"
                 THEN [requests |-> acc.requests \o <<req, req>>,
                       out |-> SetDefaults(chunk,
                                  StoreGenres(ArtistsBefore(chunk, sp.catalog), acc.out))]
                 ELSE [requests |-> acc.requests \o <<req, req>>,
                       out |-> SetDefaults(chunk, acc.out)]
         IN FetchChunks(Tail(chunks), sp, next)

\* get_genres_for_artist_ids; sp.mode tells whether sp.artists answers at
\* once ("ok"), on the second attempt ("retry") or not at all ("fail"), or
\* answers with a null in the place of each artist it does not know ("null"):
\* a["id"] then raises in the loop, in the first attempt and in the second
get_genres_for_artist_ids(sp, artist_ids) ==
    FetchChunks(chunked(artist_ids, CHUNK), sp, [out |-> EmptyDict, requests |-> <<>>])

(***************************************************************************)
(* Evidence aggregator                                                     *)
(***************************************************************************)
\* a track: its "artists" value is missing, null or a list of artists;
\* an artist without id or without name has "" there
Track(kind, artists) == [kind |-> kind, artists |-> artists]

RECURSIVE InsertScore(_, _)
InsertScore(e, s) ==
    IF s = <<>> THEN <<e>>
    ELSE IF \/ e[2] > Head(s)[2]
            \/ e[2] = Head(s)[2] /\ StrLess(e[1], Head(s)[1])
         THEN <<e>> \o s
    ELSE <<Head(s)>> \o InsertScore(e, Tail(s))

\* the items in insertion order, not sorted
SortedScores_unsorted(s) == s

RECURSIVE SortedScores(_)
\* sorted(scores.items(), key=lambda kv: (-kv[1], kv[0]))
SortedScores(s) ==
    IF s = <<>> THEN <<>>
    ELSE InsertScore(s[Len(s)], SortedScores(SubSeq(s, 1, Len(s) - 1)))

RECURSIVE add_weighted(_, _, _)
add_weighted(scores, genres, weight) ==
    IF genres = <<>> THEN scores
    ELSE add_weighted(CounterAdd(scores, normalize_genre(Head(genres)), weight),
                      Tail(genres), weight)

RECURSIVE AddRaw_overwrite(_, _, _)
\* the loop with "scores[g] = w"
AddRaw_overwrite(scores, genres, w) ==
    IF genres = <<>> THEN scores
    ELSE AddRaw_overwrite(
             IF Head(genres) \in CounterKeys(scores)
             THEN [i \in 1..Len(scores) |->
                      IF scores[i][1] = Head(genres) THEN <<Head(genres), w>>
                      ELSE scores[i]]
             ELSE Append(scores, <<Head(genres), w>>),
             Tail(genres), w)

RECURSIVE AddRaw(_, _, _)
\* for g in genres: scores[g] += w
AddRaw(scores, genres, w) ==
    IF genres = <<>> THEN scores
    ELSE AddRaw(CounterAdd(scores, Head(genres), w), Tail(genres), w)

\* the evidence items one artist contributes in one tier
EvidenceOf(tier, idx, genres) ==
    [k \in 1..Len(genres) |-> [tier |-> tier, idx |-> idx, tag |-> genres[k]]]

RECURSIVE FindMissing(_, _, _, _)
\* [aid for aid in ids if aid and cache_get(cache, aid) is None]
FindMissing(ids, c, t, missing) ==
    IF ids = <<>> THEN [cache |-> c, missing |-> missing]
    ELSE LET r == cache_get(c, Head(ids), t) IN
         FindMissing(Tail(ids), r.cache, t,
                     IF r.ret.hit THEN missing ELSE Append(missing, Head(ids)))

\* for aid, genres in batch_results.items(): cache_put(cache, aid, genres)
PutAll(c, out, t) ==
    [aid \in DOMAIN c |->
        IF aid \in DOMAIN out THEN DictEntry(out[aid], t) ELSE c[aid]]

RECURSIVE ScoreArtists(_, _, _, _, _)
\* the loop over enumerate(artists); i is the 0-based index of Head(artists)
ScoreArtists(artists, i, c, t, acc) ==
    IF artists = <<>> THEN acc
    ELSE LET aid == Head(artists).id
             role == IF i = 0 THEN "primary" ELSE "featured"
             w == ARTIST_WEIGHTS(role)
             r == cache_get(c, aid, t)
             genres == IF r.ret.hit THEN r.ret.genres ELSE <<>>
         IN IF aid = ""
            THEN ScoreArtists(Tail(artists), i + 1, c, t, acc)
            ELSE ScoreArtists(Tail(artists), i + 1, r.cache, t,
                     [scores |-> AddRaw(acc.scores, genres, w),
                      evidence |-> acc.evidence \o
                                   EvidenceOf("spotify_artist", i, genres),
                      cache |-> r.cache])

weighted_genres_for_track(sp, track, c, t) ==
    LET artists == IF track.kind = "list" THEN track.artists ELSE <<>>
        withId == SelectSeq(artists, LAMBDA a : a.id # "")
        ids == [k \in 1..Len(withId) |-> withId[k].id]
        m == FindMissing(ids, c, t, <<>>)
        batch == IF m.missing # <<>>
                 THEN get_genres_for_artist_ids(sp, m.missing)
                 ELSE [out |-> EmptyDict, requests |-> <<>>]
        filled == PutAll(m.cache, batch.out, t)
        scored == ScoreArtists(artists, 0, filled, t,
                      [scores |-> <<>>, evidence |-> <<>>, cache |-> filled])
    IN IF artists = <<>>
       THEN [list |-> <<>>, cache |-> c, missing |-> <<>>,
             requests |-> <<>>, evidence |-> <<>>]
       ELSE [list |-> SortedScores(scored.scores), cache |-> scored.cache,
             missing |-> m.missing, requests |-> batch.requests,
             evidence |-> scored.evidence]

RECURSIVE AddDirect(_, _)
\* for g, s in w: add_weighted(scores, [g], WEIGHTS_SOURCE["spotify_artist"] * s)
AddDirect(scores, w) ==
    IF w = <<>> THEN scores
    ELSE AddDirect(add_weighted(scores, <<Head(w)[1]>>,
                                WEIGHTS_SOURCE("spotify_artist") * Head(w)[2]),
                   Tail(w))

RECURSIVE AddAlias(_, _, _)
AddAlias(artists, i, acc) ==
    IF artists = <<>> THEN acc
    ELSE LET genres == genres_from_alias(Head(artists).name) IN
         AddAlias(Tail(artists), i + 1,
             [scores |-> add_weighted(acc.scores, genres,
                                      Twentieths(WEIGHTS_SOURCE("alias"))),
              evidence |-> acc.evidence \o
                           EvidenceOf("alias", i, NormalizeAll(genres))])

RECURSIVE AddNameSignals(_, _, _)
AddNameSignals(artists, i, acc) ==
    IF artists = <<>> THEN acc
    ELSE LET genres == name_signal_genres(Head(artists).name) IN
         AddNameSignals(Tail(artists), i + 1,
             [scores |-> add_weighted(acc.scores, genres,
                                      Twentieths(WEIGHTS_SOURCE("name_signal"))),
              evidence |-> acc.evidence \o
                           EvidenceOf("name_signal", i, NormalizeAll(genres))])

RECURSIVE AddMusicBrainz(_, _, _, _)
\* mb maps an artist name to what the search and the tag request answer;
\* acc.requests lists the calls made, in order: the two HTTP requests and
\* the sleep that follows a tag request
AddMusicBrainz(artists, i, mb, acc) ==
    IF artists = <<>> THEN acc
    ELSE LET aname == Head(artists).name
             mbid == mb_search_artist(mb[aname].search)
             genres == mb_artist_genres(mb[aname].tags)
             search == [svc |-> "mb_search", name |-> aname]
             fetch == [svc |-> "mb_tags", mbid |-> mbid]
             \* time.sleep(args.mb_delay)
             sleep == [svc |-> "sleep", secs |-> "mb_delay"]
         IN IF aname = ""
            THEN AddMusicBrainz(Tail(artists), i + 1, mb, acc)
            ELSE IF mbid = None
            THEN AddMusicBrainz(Tail(artists), i + 1, mb,
                     [acc EXCEPT !.requests = Append(@, search)])
            ELSE AddMusicBrainz(Tail(artists), i + 1, mb,
                     [scores |-> add_weighted(acc.scores, genres,
                                     Twentieths(WEIGHTS_SOURCE("musicbrainz"))),
                      evidence |-> acc.evidence \o
                                   EvidenceOf("musicbrainz", i, NormalizeAll(genres)),
                      requests |-> acc.requests \o <<search, fetch, sleep>>])

\* the evidence of the catalog tier under the keys add_weighted gives it
RECURSIVE Renormalized(_)
Renormalized(evidence) ==
    IF evidence = <<>> THEN <<>>
    ELSE <<[Head(evidence) EXCEPT !.tag = normalize_genre(@)]>>
         \o Renormalized(Tail(evidence))

\* a tier that is entered whatever the scores
NoScores_always(scores) == TRUE

\* "not scores": the Counter holds no key
NoScores(scores) == scores = <<>>

\* tr.get("artists", []): the list, [] when the key is missing
TrackArtists(tr) == IF tr.kind = "list" THEN tr.artists ELSE <<>>

\* tr.get("artists", [{}])[0].get("id")
PrimaryId(tr) == IF tr.kind = "list" THEN tr.artists[1].id ELSE ""

\* the tier was entered and has left the scores of st
Entered(tier, st) ==
    [st EXCEPT !.tiers = Append(@, [tier |-> tier, scores |-> st.scores])]

\* the scores and the evidence a loop over the artists has added
WithEvidence(st, r) ==
    [st EXCEPT !.scores = r.scores, !.evidence = @ \o r.evidence]

\* 1) Spotify direct, from what weighted_genres_for_track returned
TierDirect(w) ==
    Entered("spotify_artist",
        [raised |-> FALSE,
         scores |-> AddDirect(<<>>, w.list),
         cache |-> w.cache,
         missing |-> w.missing,
         tiers |-> <<>>,
         requests |-> w.requests,
         evidence |-> Renormalized(w.evidence),
         errors |-> <<>>])

\* 2) alias by name; iterating None raises
TierAlias(tr, st) ==
    IF ~NoScores(st.scores) THEN st
    ELSE IF tr.kind = "null" THEN Entered("alias", [st EXCEPT !.raised = TRUE])
    ELSE Entered("alias",
             WithEvidence(st, AddAlias(TrackArtists(tr), 0,
                                  [scores |-> st.scores, evidence |-> <<>>])))

\* the name signals added whatever the scores
TierNameSignal_unconditional(tr, st) ==
    IF st.raised THEN st
    ELSE Entered("name_signal",
             WithEvidence(st, AddNameSignals(TrackArtists(tr), 0,
                                  [scores |-> st.scores, evidence |-> <<>>])))

\* 3) name signals
TierNameSignal(tr, st) ==
    IF st.raised \/ ~NoScores(st.scores) THEN st
    ELSE Entered("name_signal",
             WithEvidence(st, AddNameSignals(TrackArtists(tr), 0,
                                  [scores |-> st.scores, evidence |-> <<>>])))

\* infer_from_related was asked about the primary artist and returned rel
WithRelated(st, primary_id, rel, errs) ==
    [st EXCEPT !.scores = add_weighted(@, rel,
                              Twentieths(WEIGHTS_SOURCE("spotify_related"))),
               !.requests = Append(@, [svc |-> "related", id |-> primary_id]),
               !.evidence = @ \o EvidenceOf("spotify_related", 0, NormalizeAll(rel)),
               !.errors = @ \o errs]

\* the related tier entered whether or not --infer-related was given
TierRelated_ungated(related, flags, tr, st) ==
    IF st.raised \/ ~NoScores(st.scores) THEN st
    ELSE IF tr.kind = "null" \/ (tr.kind = "list" /\ tr.artists = <<>>)
    THEN Entered("spotify_related", [st EXCEPT !.raised = TRUE])
    ELSE IF PrimaryId(tr) = "" THEN Entered("spotify_related", st)
    ELSE Entered("spotify_related",
             WithRelated(st, PrimaryId(tr), infer_from_related(related),
                         infer_from_related_errors(related, PrimaryId(tr))))

\* 4) related artists (primary only); [0] of an empty list or of None raises
TierRelated(related, flags, tr, st) ==
    IF st.raised \/ ~(NoScores(st.scores) /\ flags.infer_related) THEN st
    ELSE IF tr.kind = "null" \/ (tr.kind = "list" /\ tr.artists = <<>>)
    THEN Entered("spotify_related", [st EXCEPT !.raised = TRUE])
    ELSE IF PrimaryId(tr) = "" THEN Entered("spotify_related", st)
    ELSE Entered("spotify_related",
             WithRelated(st, PrimaryId(tr), infer_from_related(related),
                         infer_from_related_errors(related, PrimaryId(tr))))

\* the scores, the evidence and the requests of the loop over the artists
WithExternal(st, r) ==
    [st EXCEPT !.scores = r.scores, !.evidence = @ \o r.evidence,
               !.requests = @ \o r.requests]

\* 5) MusicBrainz tags
TierMusicBrainz(mb, flags, tr, st) ==
    IF st.raised \/ ~(NoScores(st.scores) /\ flags.use_musicbrainz) THEN st
    ELSE Entered("musicbrainz",
             WithExternal(st, AddMusicBrainz(TrackArtists(tr), 0, mb,
                                  [scores |-> st.scores, evidence |-> <<>>,
                                   requests |-> <<>>])))

\* turn scores into sorted list; nothing is returned when a tier raised
SortedList(st) ==
    [raised |-> st.raised,
     weighted |-> IF st.raised THEN <<>> ELSE SortedScores(st.scores),
     cache |-> st.cache,
     missing |-> st.missing,
     tiers |-> st.tiers,
     requests |-> st.requests,
     evidence |-> st.evidence,
     errors |-> st.errors]

\* genres_for_track: the sorted scores, the cache it leaves, whether it
\* raised, and what it did on the way (tiers entered with the scores each
\* left, requests sent, evidence items added, entries appended to the
\* _errors lists that main prints as the run's diagnostics)
genres_for_track(sp, related, mb, flags, tr, c, t) ==
    SortedList(
        TierMusicBrainz(mb, flags, tr,
            TierRelated(related, flags, tr,
                TierNameSignal(tr,
                    TierAlias(tr,
                        TierDirect(weighted_genres_for_track(sp, tr, c, t)))))))

(***************************************************************************)
(* The run of main over the tracks: one step scores and buckets one track, *)
(* the next moves the loop on.  The cache is as load_cache found it; the   *)
(* providers answer as they please.  The clock does not move while a       *)
(* track is scored.                                                        *)
(***************************************************************************)
MaxArtists == 2      \* longest artist list of a track

Plain == [id |-> "a1", name |-> "Zed"]
Aliased == [id |-> "a2", name |-> "Macklemore"]
Orchestra == [id |-> "", name |-> "Boston Symphony Orchestra"]
Guest == [id |-> "", name |-> "Yan"]

Artists == {Plain, Aliased, Orchestra, Guest}
ArtistNames == {a.name : a \in Artists}

RECURSIVE ArtistListsUpTo(_)
\* the artist lists of at most n artists; a track names an artist once
ArtistListsUpTo(n) ==
    IF n = 0 THEN {<<>>}
    ELSE LET S == ArtistListsUpTo(n - 1) IN
         S \cup {Append(p[1], p[2]) :
                    p \in {q \in S \X Artists :
                              \A i \in 1..Len(q[1]) : q[1][i] # q[2]}}

Tracks ==
    {Track("absent", <<>>), Track("null", <<>>)}
    \cup {Track("list", s) : s \in ArtistListsUpTo(MaxArtists)}

\* what the catalog holds for an artist
CatalogGenres(aid) == IF aid = "a1" THEN <<"Trap">> ELSE <<"classical", "USA">>

\* sp.artists: the artist is not returned, has no genres, or has its genres
CatalogAnswers(aid) == {Failure, Answer(<<>>), Answer(CatalogGenres(aid))}

NoCatalog == [aid \in ArtistIds |-> Failure]

SpAnswers(asked) ==
    IF asked = {} THEN {[mode |-> "ok", catalog |-> NoCatalog]}
    ELSE {[mode |-> "fail", catalog |-> NoCatalog]}
         \cup {[mode |-> m, catalog |-> f] :
                 m \in {"ok", "retry"},
                 f \in {g \in [ArtistIds -> UNION {CatalogAnswers(aid) : aid \in ArtistIds}] :
                          \A aid \in ArtistIds :
                              IF aid \in asked THEN g[aid] \in CatalogAnswers(aid)
                              ELSE g[aid] = Failure}}

RelatedAnswers ==
    {Failure, Answer(<<>>),
     Answer(<< <<"USA", "trap">>, <<"usa", "Rap">>, <<"drill", "emo rap">> >>)}

NoMB == [search |-> Failure, tags |-> Failure]

MBAnswersFor ==
    {NoMB,
     [search |-> Answer(None), tags |-> Failure],
     [search |-> Answer("mbid-1"), tags |-> Failure],
     [search |-> Answer("mbid-1"), tags |-> Answer(<<"Seen_Live", "USA", "Hip Hop">>)]}

MBAnswers(asked) ==
    {[n \in ArtistNames |-> IF n \in asked THEN f[n] ELSE NoMB] :
        f \in [asked -> MBAnswersFor]}

\* split_artists
split_artists(tr) ==
    IF tr.kind = "list" THEN SelectSeq(tr.artists, LAMBDA a : a.id # "") ELSE <<>>

StartTime == CACHE_TTL + 1
LoadedTimes == {0, 1}

LegacyList == <<"rock">>

LoadedFor(aid) ==
    {NoEntry, ListEntry(LegacyList)}
    \cup {DictEntry(g, ts) : g \in {<<>>, NormalizeAll(CatalogGenres(aid))},
                             ts \in LoadedTimes}

Init ==
    /\ now = StartTime
    /\ cache \in {c \in [ArtistIds -> UNION {LoadedFor(aid) : aid \in ArtistIds}] :
                     \A aid \in ArtistIds : c[aid] \in LoadedFor(aid)}
    /\ args \in {parse_args(argv) : argv \in CommandLines}
    /\ last = [op |-> "load_cache"]

Range(s) == {s[i] : i \in 1..Len(s)}

\* one turn of the loop "for tr in tracks" of main; the providers' answers
\* are drawn for the requests the turn sends
ProcessTrack ==
    /\ last.op \in {"load_cache", "for"}
    /\ \E tr \in Tracks :
       \E probe \in {weighted_genres_for_track([mode |-> "fail", catalog |-> NoCatalog],
                                               tr, cache, now).missing} :
       \E sp \in SpAnswers(Range(probe)) :
       \E r1 \in {genres_for_track(sp, Failure, [n \in ArtistNames |-> NoMB],
                                   args, tr, cache, now)} :
       \E related \in (IF \E i \in 1..Len(r1.requests) : r1.requests[i].svc = "related"
                       THEN RelatedAnswers ELSE {Failure}) :
       \E r2 \in {IF related = Failure THEN r1
                  ELSE genres_for_track(sp, related, [n \in ArtistNames |-> NoMB],
                                        args, tr, cache, now)} :
       \E mb \in MBAnswers({r2.requests[i].name :
                              i \in {j \in 1..Len(r2.requests) :
                                        r2.requests[j].svc = "mb_search"}}) :
       \E r \in {IF mb = [n \in ArtistNames |-> NoMB] THEN r2
                 ELSE genres_for_track(sp, related, mb, args, tr, cache, now)} :
       \E artists \in {split_artists(tr)} :
           /\ cache' = r.cache
           /\ last' = [op |-> "track", tr |-> tr, sp |-> sp, related |-> related,
                       mb |-> mb, cache0 |-> cache, t |-> now,
                       raised |-> r.raised,
                       weighted |-> r.weighted,
                       bucket |-> IF r.raised THEN None
                                  ELSE bucketize_scored(r.weighted),
                       primary_id |-> IF artists # <<>> THEN artists[1].id ELSE "",
                       missing |-> r.missing, tiers |-> r.tiers,
                       requests |-> r.requests, evidence |-> r.evidence,
                       errors |-> r.errors]
    /\ UNCHANGED <<now, args>>

\* "for tr in tracks": the loop moves on, unless the turn raised
NextTrack ==
    /\ last.op = "track"
    /\ ~last.raised
    /\ last' = [op |-> "for"]
    /\ UNCHANGED <<cache, now, args>>

Next == ProcessTrack \/ NextTrack

Spec == Init /\ [][Next]_vars

(***************************************************************************)
(* Specification of the batch fetch alone: a list of artist ids, as long   *)
(* as two chunks and more, and a catalog; then get_genres_for_artist_ids.  *)
(***************************************************************************)
BatchLengths == {0, 1, CHUNK - 1, CHUNK, CHUNK + 1, 2 * CHUNK, 2 * CHUNK + 1}

\* the ids of pattern, repeated up to length n
Cycle(pattern, n) == [i \in 1..n |-> pattern[((i - 1) % Len(pattern)) + 1]]

BatchPatterns == UNION {[1..n -> ArtistIds] : n \in 1..MaxArtists}

BatchIdLists == {Cycle(p, n) : p \in BatchPatterns, n \in BatchLengths}

BatchAnswers ==
    {[mode |-> m, catalog |-> f] :
        m \in {"ok", "retry", "fail", "null"},
        f \in {g \in [ArtistIds -> UNION {CatalogAnswers(aid) : aid \in ArtistIds}] :
                 \A aid \in ArtistIds : g[aid] \in CatalogAnswers(aid)}}

InitBatch ==
    /\ \E ids \in BatchIdLists, sp \in BatchAnswers :
           last = [op |-> "artist_ids", artist_ids |-> ids, sp |-> sp]
    /\ cache = [aid \in ArtistIds |-> NoEntry]
    /\ now = StartTime
    /\ args = NoArgs

FetchBatch ==
    /\ last.op = "artist_ids"
    /\ \E r \in {get_genres_for_artist_ids(last.sp, last.artist_ids)} :
           last' = [op |-> "get_genres_for_artist_ids",
                    artist_ids |-> last.artist_ids, sp |-> last.sp,
                    out |-> r.out, requests |-> r.requests]
    /\ UNCHANGED <<cache, now, args>>

NextBatch == FetchBatch

SpecBatch == InitBatch /\ [][NextBatch]_vars

(***************************************************************************)
(* Properties                                                              *)
(***************************************************************************)

\* C1: normalisation is idempotent: normalize_genre applied to an output of
\* normalize_genre returns it unchanged.
C1_Idempotent ==
    (last.op = "normalize_genre" /\ last.applied >= 2) => last.ret = last.arg

\* the ways of adding one generic tag to what a provider answered for an
\* artist of the track
GenericSamples == {"usa", "seen live"}

CatalogVariants(sp) ==
    {[sp EXCEPT !.catalog[aid] = Answer(Append(sp.catalog[aid].value, g))] :
        aid \in {a \in ArtistIds : sp.catalog[a].ok}, g \in GenericSamples}

RelatedVariants(related) ==
    IF ~related.ok THEN {}
    ELSE {Answer([related.value EXCEPT ![k] = Append(@, g)]) :
            k \in 1..Len(related.value), g \in GenericSamples}

MBVariants(mb) ==
    {[mb EXCEPT ![n].tags = Answer(Append(mb[n].tags.value, g))] :
        n \in {m \in ArtistNames : mb[m].tags.ok}, g \in GenericSamples}

BucketOf(sp, related, mb) ==
    bucketize_scored(genres_for_track(sp, related, mb, args, last.tr,
                                      last.cache0, last.t).weighted)

\* C2: a generic tag added to what a provider returns for an artist of the
\* track never changes the bucket of the track.
C2_GenericTagsNeverMatter ==
    (last.op = "track" /\ ~last.raised) =>
        /\ \A sp \in CatalogVariants(last.sp) :
               BucketOf(sp, last.related, last.mb) = last.bucket
        /\ \A related \in RelatedVariants(last.related) :
               BucketOf(last.sp, related, last.mb) = last.bucket
        /\ \A mb \in MBVariants(last.mb) :
               BucketOf(last.sp, last.related, mb) = last.bucket

\* C4: cache_get on an entry that cache_put wrote at time T misses when
\* more than the TTL has passed since T, and otherwise returns exactly the
\* stored list, the empty list included.
C4_ExpiryBoundary ==
    (last.op = "cache_get" /\ last.ent.shape = "dict") =>
        IF last.t - last.ent.ts > CACHE_TTL
        THEN last.ret = Miss /\ ~last.ret.hit
        ELSE last.ret.hit /\ last.ret.genres = last.ent.genres

\* an empty list is returned as a hit exactly when the entry is as old as the TTL
C4_Witness ==
    /\ last.op = "cache_get"
    /\ last.ent.shape = "dict"
    /\ last.ent.genres = <<>>
    /\ last.t - last.ent.ts = CACHE_TTL
    /\ last.ret.hit

\* the fixed preference order of the buckets
Preference == <<"rock", "country", "hip-hop", "classical", "musical", "electronic", "other">>
PreferenceRank(b) == CHOOSE i \in 1..Len(Preference) : Preference[i] = b

RECURSIVE SumFor(_, _)
\* the summed score of the tags of wg that the table maps to bucket b
SumFor(wg, b) ==
    IF wg = <<>> THEN 0
    ELSE (IF CANON_TO_BUCKET(Head(wg)[1]) = b THEN Head(wg)[2] ELSE 0)
         + SumFor(Tail(wg), b)

MappedBuckets(wg) == {CANON_TO_BUCKET(wg[i][1]) : i \in 1..Len(wg)} \ {None}

TopBuckets(wg) ==
    {b \in MappedBuckets(wg) :
        \A b2 \in MappedBuckets(wg) : SumFor(wg, b) >= SumFor(wg, b2)}

Reorderings(wg) ==
    {[i \in 1..Len(wg) |-> wg[p[i]]] :
        p \in {q \in [1..Len(wg) -> 1..Len(wg)] :
                 \A i, j \in 1..Len(wg) : q[i] = q[j] => i = j}}

\* C5: when several buckets share the highest summed score, the one that
\* comes first in the preference order is returned, in whatever order the
\* (tag, score) pairs are given.
C5_TieBreak ==
    (last.op = "bucketize_scored" /\ Cardinality(TopBuckets(last.arg)) >= 2) =>
        /\ last.ret \in TopBuckets(last.arg)
        /\ \A b \in TopBuckets(last.arg) : PreferenceRank(last.ret) <= PreferenceRank(b)
        /\ \A wg \in Reorderings(last.arg) : bucketize_scored(wg) = last.ret

\* two buckets tie and the list names the less preferred one first
C5_Witness ==
    /\ last.op = "bucketize_scored"
    /\ Cardinality(TopBuckets(last.arg)) >= 2
    /\ CANON_TO_BUCKET(last.arg[1][1]) \in TopBuckets(last.arg)
    /\ CANON_TO_BUCKET(last.arg[1][1]) # last.ret

\* C6: bucketize_scored returns "other" exactly when no tag of its input
\* has a table entry; otherwise a bucket of maximal summed score; and
\* always one of the seven buckets.
C6_OtherOrMaximal ==
    last.op = "bucketize_scored" =>
        /\ last.ret = "other" <=> MappedBuckets(last.arg) = {}
        /\ last.ret # "other" => last.ret \in TopBuckets(last.arg)
        /\ last.ret \in {Preference[i] : i \in 1..Len(Preference)}

\* an unmapped tag has the highest score of a list that also has mapped tags
C6_Witness ==
    /\ last.op = "bucketize_scored"
    /\ last.ret # "other"
    /\ Cardinality(MappedBuckets(last.arg)) >= 2
    /\ \E i \in 1..Len(last.arg) :
           /\ CANON_TO_BUCKET(last.arg[i][1]) = None
           /\ \A j \in 1..Len(last.arg) : last.arg[i][2] >= last.arg[j][2]

TierOrder == <<"spotify_artist", "alias", "name_signal", "spotify_related", "musicbrainz">>
TierRank(tier) == CHOOSE i \in 1..Len(TierOrder) : TierOrder[i] = tier
TiersEntered == {last.tiers[i].tier : i \in 1..Len(last.tiers)}

\* C7: the tiers are entered in the fixed order, a tier only while every
\* earlier tier has left the scores empty; requests and evidence belong to
\* tiers that were entered.
C7_EscalationOrder ==
    last.op = "track" =>
        /\ last.tiers[1].tier = "spotify_artist"
        /\ \A i, j \in 1..Len(last.tiers) :
               i < j => /\ TierRank(last.tiers[i].tier) < TierRank(last.tiers[j].tier)
                        /\ last.tiers[i].scores = <<>>
        /\ \A k \in 1..Len(last.requests) :
               /\ last.requests[k].svc = "related" => "spotify_related" \in TiersEntered
               /\ last.requests[k].svc \in {"mb_search", "mb_tags"}
                      => "musicbrainz" \in TiersEntered
        /\ \A k \in 1..Len(last.evidence) : last.evidence[k].tier \in TiersEntered

\* the name heuristic yields evidence and the two optional tiers, though
\* enabled, are not entered
C7_Witness ==
    /\ last.op = "track"
    /\ ~last.raised
    /\ args.infer_related /\ args.use_musicbrainz
    /\ Len(last.tiers) = 3
    /\ last.tiers[3].tier = "name_signal"
    /\ last.tiers[3].scores # <<>>
    /\ last.requests = <<>>

RoleOf(idx) == IF idx = 0 THEN "primary" ELSE "featured"

RECURSIVE ClaimedScore(_, _)
\* the score a tag has when every evidence item for it adds
\* sourceWeight(tier) x roleWeight(role)
ClaimedScore(evidence, g) ==
    IF evidence = <<>> THEN 0
    ELSE (IF Head(evidence).tag = g
          THEN WEIGHTS_SOURCE(Head(evidence).tier) * ARTIST_WEIGHTS(RoleOf(Head(evidence).idx))
          ELSE 0)
         + ClaimedScore(Tail(evidence), g)

\* C8: in every tier an evidence item adds sourceWeight(tier) x 1.0 when
\* it comes from the artist at index 0 and sourceWeight(tier) x 0.5 when it
\* comes from any other artist.
C8_SourceTimesRole ==
    (last.op = "track" /\ ~last.raised) =>
        \A k \in 1..Len(last.weighted) :
            last.weighted[k][2] = ClaimedScore(last.evidence, last.weighted[k][1])

\* the tags the catalog tier scored for the artist at 0-based index idx
CatalogTagsAt(idx) ==
    LET items == SelectSeq(last.evidence,
                     LAMBDA e : e.tier = "spotify_artist" /\ e.idx = idx)
    IN [k \in 1..Len(items) |-> items[k].tag]

\* the tags the batch fetch of this turn returned for an artist
FreshTags(aid) ==
    IF last.sp.mode # "fail" /\ last.sp.catalog[aid].ok
    THEN NormalizeAll(NormalizeAll(last.sp.catalog[aid].value))
    ELSE <<>>

\* C9: for an artist whose cache entry was a bare list when the turn
\* began, the tags scored are those of the fresh fetch (none when the fetch
\* failed or did not return the artist), never those of the list.
C9_LegacyNeverScored ==
    (last.op = "track" /\ ~last.raised /\ last.tr.kind = "list") =>
        \A i \in 1..Len(last.tr.artists) :
            LET aid == last.tr.artists[i].id IN
            (aid # "" /\ last.cache0[aid].shape = "list") =>
                CatalogTagsAt(i - 1) = FreshTags(aid)

\* C10: a batch fetch that fails on both attempts creates no entry and
\* leaves the tags and the timestamp of an existing entry as they were.
C10_FailedFetchLeavesCache ==
    (last.op = "track" /\ last.sp.mode = "fail") =>
        \A aid \in Range(last.missing) :
            last.cache0[aid].shape \in {"absent", "dict"} =>
                cache[aid] = last.cache0[aid]

\* the HTTP requests to the external tag service among the calls of a turn
IsMBRequest(call) == call.svc \in {"mb_search", "mb_tags"}

\* C11: between any two successive requests to the external tag service
\* the caller-supplied delay elapses: the turn sleeps for mb_delay after
\* each request that another request follows.
C11_DelayBetweenRequests ==
    last.op = "track" =>
        \A i, j \in 1..Len(last.requests) :
            (i < j /\ IsMBRequest(last.requests[i]) /\ IsMBRequest(last.requests[j])) =>
                \E k \in (i + 1)..(j - 1) : last.requests[k].svc = "sleep"

\* C12: scoring never fails: whatever the track record, the flags and the
\* providers' answers, the turn returns a scored list and one of the seven
\* buckets without raising.
C12_NeverRaises ==
    last.op = "track" =>
        /\ ~last.raised
        /\ last.bucket \in {Preference[i] : i \in 1..Len(Preference)}

\* the number of provider calls of the turn that failed: a batch lookup
\* whose two attempts raised, a related-artist lookup, a search or a tag
\* request of the external tag service that raised
FailedCalls ==
    LET req == last.requests
        n == Len(req)
    IN Cardinality({k \in 1..n :
           \/ req[k].svc = "artists" /\ last.sp.mode = "fail"
                 /\ (k = 1 \/ req[k - 1].svc # "artists")
           \/ req[k].svc = "related" /\ ~last.related.ok
           \/ req[k].svc = "mb_search" /\ ~last.mb[req[k].name].search.ok
           \/ req[k].svc = "mb_tags" /\ ~last.mb[req[k - 1].name].tags.ok})

\* C13: every provider failure is recorded: a turn adds exactly one
\* diagnostic entry for each provider call that failed.
C13_FailuresRecorded ==
    (last.op = "track" /\ ~last.raised) => Len(last.errors) = FailedCalls

\* C14: corrupt cache content is a miss, never an error: load_cache gives
\* the empty cache for a missing or unparsable file, and cache_get on a
\* value that is neither a tag list nor an object with tags and a numeric
\* timestamp returns a miss without raising.
C14_CorruptIsMiss ==
    /\ (last.op = "load_cache" /\ last.file \in {"missing", "unparsable"}) =>
           \A aid \in ArtistIds : cache[aid] = NoEntry
    /\ (last.op = "cache_get" /\ last.ent.shape \in {"scalar", "dict_text_ts"}) =>
           last.ret = Miss

\* the artists of the track the catalog tier got no tag for: no id, or an
\* id that contributed no evidence in that tier
WithoutCatalogTags ==
    {i \in 1..Len(last.tr.artists) :
        \/ last.tr.artists[i].id = ""
        \/ CatalogTagsAt(i - 1) = <<>>}

\* C15: for each artist whose lookup by id returns no tags or whose id is
\* absent, the catalog is searched by the artist's name before the alias
\* table is consulted.
C15_NameSearchFallback ==
    (last.op = "track" /\ last.tr.kind = "list") =>
        \A i \in WithoutCatalogTags :
            last.tr.artists[i].name # "" =>
                \E k \in 1..Len(last.requests) :
                    /\ last.requests[k].svc = "search"
                    /\ last.requests[k].name = last.tr.artists[i].name

\* the tiers the calls and the evidence of the turn belong to
TiersUsed ==
    TiersEntered
    \cup {last.evidence[k].tier : k \in 1..Len(last.evidence)}
    \cup {IF last.requests[k].svc = "related" THEN "spotify_related"
          ELSE IF last.requests[k].svc = "artists" THEN "spotify_artist"
          ELSE "musicbrainz" : k \in 1..Len(last.requests)}

\* C16: optional tiers are gated: without inferRelated no related-artist
\* request is made and no related-artist evidence is scored, and without
\* useExternalTagService no request goes to the external tag service and
\* none of its evidence is scored.
C16_OptionalTiersGated ==
    last.op = "track" =>
        /\ ~args.infer_related => "spotify_related" \notin TiersUsed
        /\ ~args.use_musicbrainz => "musicbrainz" \notin TiersUsed

\* both optional tiers are off and the three tiers before them found
\* nothing for a track whose primary artist has an id
C16_Witness ==
    /\ last.op = "track"
    /\ ~last.raised
    /\ ~args.infer_related /\ ~args.use_musicbrainz
    /\ last.tr.kind = "list" /\ last.tr.artists # <<>>
    /\ last.tr.artists[1].id # ""
    /\ Len(last.tiers) = 3
    /\ last.tiers[3].scores = <<>>
    /\ last.weighted = <<>>

\* the run was started without --use-all-artists
UseAllArtistsOff ==
    \E argv \in CommandLines :
        "--use-all-artists" \notin argv /\ parse_args(argv) = args

\* C17: when useAllArtists is false, only the primary artist (index 0)
\* contributes evidence in the catalog tier.
C17_OnlyPrimaryInCatalogTier ==
    (last.op = "track" /\ UseAllArtistsOff) =>
        \A k \in 1..Len(last.evidence) :
            last.evidence[k].tier = "spotify_artist" => last.evidence[k].idx = 0

\* C18: a malformed artist contributes no evidence: every evidence item of
\* a turn comes from an artist record that has an id and a name.
C18_MalformedArtistSkipped ==
    (last.op = "track" /\ ~last.raised /\ last.tr.kind = "list") =>
        \A k \in 1..Len(last.evidence) :
            LET a == last.tr.artists[last.evidence[k].idx + 1] IN
            a.id # "" /\ a.name # ""

\* C19: no generic tag is ever scored: the list a turn returns holds no tag
\* whose normalized form is in the generic tag set.
C19_NoGenericScored ==
    (last.op = "track" /\ ~last.raised) =>
        \A k \in 1..Len(last.weighted) :
            normalize_genre(last.weighted[k][1]) \notin GENERIC_TAGS

\* C20: normalize_genre never returns the empty string for a non-empty
\* input string.
C20_NeverEmpty ==
    (last.op = "normalize_genre" /\ last.arg # "") => last.ret # ""

\* C21: the list a turn returns holds each tag at most once and is ordered
\* by descending score, tags of equal score in ascending string order.
C21_SortedUniqueList ==
    (last.op = "track" /\ ~last.raised) =>
        \A i, j \in 1..Len(last.weighted) :
            i < j =>
                \/ last.weighted[i][2] > last.weighted[j][2]
                \/ /\ last.weighted[i][2] = last.weighted[j][2]
                   /\ StrLess(last.weighted[i][1], last.weighted[j][1])

\* three tags of equal score were scored in an order that is not the
\* order of the list
C21_Witness ==
    /\ last.op = "track"
    /\ ~last.raised
    /\ Len(last.weighted) >= 3
    /\ last.weighted[1][2] = last.weighted[3][2]
    /\ last.evidence[1].tag = last.weighted[3][1]

\* C22: cache_get on an entry stored as a bare tag list, the empty list
\* included, returns a miss and leaves for that artist an entry in current
\* shape whose tags are those of the list and whose timestamp is the time
\* of the call.
C22_LegacyRewritten ==
    (last.op = "cache_get" /\ last.ent.shape = "list") =>
        /\ last.ret = Miss
        /\ cache[last.aid] = DictEntry(last.ent.genres, last.t)

\* C23: under a clock that never goes back, no step of cache_get or
\* cache_put lowers the timestamp stored in an artist's entry.
C23_TimestampMonotone ==
    [][\A aid \in ArtistIds :
          (cache[aid].shape = "dict" /\ cache'[aid].shape = "dict") =>
              cache'[aid].ts >= cache[aid].ts]_vars

\* cache_put has replaced an entry written at an earlier time
C23_Witness ==
    /\ last.op = "cache_put"
    /\ last.ent.shape = "dict"
    /\ last.t > last.ent.ts
    /\ cache[last.aid].ts = last.t

\* the requests of get_genres_for_artist_ids that carry the chunk
RequestsFor(chunk) ==
    Len(SelectSeq(last.requests, LAMBDA call : call.svc = "artists" /\ call.ids = chunk))

\* the chunks of the id list that are equal to the chunk
ChunksLike(chunk) ==
    Len(SelectSeq(chunked(last.artist_ids, CHUNK), LAMBDA other : other = chunk))

\* both attempts for the chunk raise: in sp.artists, or at a null in what
\* it returns
BothAttemptsFail(chunk) ==
    \/ last.sp.mode = "fail"
    \/ last.sp.mode = "null" /\ HasUnknown(chunk, last.sp.catalog)

\* C24: get_genres_for_artist_ids sends each chunk of at most 50 ids at most
\* twice, returns, and when both attempts for a chunk fail every id of that
\* chunk is in the result with an empty tag list.
C24_BoundedBatchRetry ==
    last.op = "get_genres_for_artist_ids" =>
        \A k \in 1..Len(chunked(last.artist_ids, CHUNK)) :
            LET chunk == chunked(last.artist_ids, CHUNK)[k] IN
            /\ Len(chunk) <= CHUNK
            /\ RequestsFor(chunk) <= 2 * ChunksLike(chunk)
            /\ BothAttemptsFail(chunk) =>
                   \A i \in 1..Len(chunk) :
                       /\ chunk[i] \in DOMAIN last.out
                       /\ last.out[chunk[i]] = <<>>

\* an entry of the current shape that has not expired at time t
Unexpired(ent, t) == ent.shape = "dict" /\ t - ent.ts <= CACHE_TTL

\* the tags the batch fetch of the turn holds for the artist id
FetchedTags(sp, aid) ==
    IF sp.mode # "fail" /\ sp.catalog[aid].ok
    THEN NormalizeAll(sp.catalog[aid].value)
    ELSE <<>>

\* the artist ids the turn asked the catalog for
CatalogAsked ==
    UNION {Range(last.requests[i].ids) :
              i \in {j \in 1..Len(last.requests) : last.requests[j].svc = "artists"}}

\* C25: after a track has been scored every artist id of the track that was
\* a cache miss has an entry of the current shape that holds the fetched
\* tags, also when they are empty; and no catalog request of the turn names
\* an artist id that had an unexpired entry when the turn began.
C25_CacheShortCircuit ==
    (last.op = "track" /\ ~last.raised) =>
        /\ \A aid \in Range(last.missing) :
               /\ cache[aid].shape = "dict"
               /\ cache[aid].genres = FetchedTags(last.sp, aid)
        /\ \A aid \in CatalogAsked : ~Unexpired(last.cache0[aid], last.t)

\* what weighted_genres_for_track returned in the turn
CatalogTier == weighted_genres_for_track(last.sp, last.tr, last.cache0, last.t)

\* the tag list the cache holds for the artist at list index i (from 1)
\* once the catalog tier has run and returned w
TagListAt(w, i) ==
    LET aid == TrackArtists(last.tr)[i].id IN
    IF aid # "" /\ Unexpired(w.cache[aid], last.t)
    THEN w.cache[aid].genres
    ELSE <<>>

Occurrences(tag, genres) == Cardinality({k \in 1..Len(genres) : genres[k] = tag})

\* role weight, in halves, times occurrences of the tag for the artist at i
Contribution(w, tag, i) ==
    (IF i = 1 THEN 2 ELSE 1) * Occurrences(tag, TagListAt(w, i))

RECURSIVE SumContributions(_, _, _)
SumContributions(w, tag, n) ==
    IF n = 0 THEN 0 ELSE SumContributions(w, tag, n - 1) + Contribution(w, tag, n)

CatalogTags(w) ==
    UNION {Range(TagListAt(w, i)) : i \in 1..Len(TrackArtists(last.tr))}

\* C26: the score weighted_genres_for_track gives a tag is the sum, over the
\* artists of the track that have an id, of the role weight (1.0 at list
\* index 0, 0.5 elsewhere) times the occurrences of the tag in the artist's
\* tag list; the list holds exactly the tags of those artists.
C26_AdditiveAccumulation ==
    (last.op = "track" /\ ~last.raised) =>
        LET w == CatalogTier IN
        /\ {w.list[k][1] : k \in 1..Len(w.list)} = CatalogTags(w)
        /\ \A k \in 1..Len(w.list) :
               w.list[k][2] = SumContributions(w, w.list[k][1], Len(TrackArtists(last.tr)))

\* a tag that two artists of the track share is scored 1.0 + 0.5
C26_Witness ==
    /\ last.op = "track" /\ ~last.raised
    /\ LET w == CatalogTier IN
       \E k \in 1..Len(w.list) :
           /\ w.list[k][2] = 3
           /\ Contribution(w, w.list[k][1], 1) = 2
           /\ Contribution(w, w.list[k][1], 2) = 1

\* the artist ids the related tier of the turn asked about
RelatedAsked ==
    {last.requests[i].id :
        i \in {j \in 1..Len(last.requests) : last.requests[j].svc = "related"}}

\* the artist names the external tag service was searched for in the turn
ExternalAsked ==
    {last.requests[i].name :
        i \in {j \in 1..Len(last.requests) : last.requests[j].svc = "mb_search"}}

\* C27: every escalation tier that runs consults every artist of the track:
\* the related tier asks about each artist that has an id and the external
\* tier searches each artist that has a name, not only the first.
C27_EveryArtistConsulted ==
    (last.op = "track" /\ ~last.raised) =>
        \A i \in 1..Len(TrackArtists(last.tr)) :
            LET a == TrackArtists(last.tr)[i] IN
            /\ ("spotify_related" \in TiersUsed /\ a.id # "") => a.id \in RelatedAsked
            /\ ("musicbrainz" \in TiersUsed /\ a.name # "") => a.name \in ExternalAsked

\* the tiers the evidence of the turn comes from
EvidenceTiers == {last.evidence[k].tier : k \in 1..Len(last.evidence)}

\* what one evidence item adds to the score of its tag, in twentieths
ItemWeight(item) ==
    IF item.tier = "spotify_artist"
    THEN WEIGHTS_SOURCE("spotify_artist") * ARTIST_WEIGHTS(IF item.idx = 0 THEN "primary"
                                                            ELSE "featured")
    ELSE Twentieths(WEIGHTS_SOURCE(item.tier))

RECURSIVE TierScore(_, _, _)
\* the sum of what the first n evidence items of the tier add to the tag
TierScore(tier, tag, n) ==
    IF n = 0 THEN 0
    ELSE TierScore(tier, tag, n - 1)
         + (IF last.evidence[n].tier = tier /\ last.evidence[n].tag = tag
            THEN ItemWeight(last.evidence[n]) ELSE 0)

\* C28: all scored tags of a list genres_for_track returns come from exactly
\* one tier: the turn holds evidence of at most one tier, and every score of
\* the list is the sum of the evidence of that tier alone.
C28_SingleSource ==
    (last.op = "track" /\ ~last.raised) =>
        /\ Cardinality(EvidenceTiers) <= 1
        /\ last.weighted # <<>> => Cardinality(EvidenceTiers) = 1
        /\ \A tier \in EvidenceTiers :
           \A k \in 1..Len(last.weighted) :
               last.weighted[k][2] =
                   TierScore(tier, last.weighted[k][1], Len(last.evidence))

\* the alias tier scored the track, and a later tier had evidence for
\* another artist of it
C28_Witness ==
    /\ last.op = "track" /\ ~last.raised
    /\ last.weighted # <<>>
    /\ EvidenceTiers = {"alias"}
    /\ \E i \in 1..Len(TrackArtists(last.tr)) :
           name_signal_genres(TrackArtists(last.tr)[i].name) # <<>>

\* C29: reading does not write: a cache_get that finds no entry, or an entry
\* of the current shape, expired or not, leaves the whole cache as it was;
\* cache_put and the rewrite of a bare list change the entry of the given
\* artist id only.
C29_ReadingDoesNotWrite ==
    [][/\ (last'.op = "cache_get" /\ cache[last'.aid].shape \in {"absent", "dict"})
              => cache' = cache
       /\ last'.op \in {"cache_get", "cache_put"}
              => \A aid \in ArtistIds \ {last'.aid} : cache'[aid] = cache[aid]
       /\ cache' # cache
              => \/ last'.op = "cache_put"
                 \/ last'.op = "cache_get" /\ cache[last'.aid].shape = "list"]_vars

\* cache_get has missed on an expired entry and the entry is still there,
\* next to the entry of another artist
C29_Witness ==
    /\ last.op = "cache_get"
    /\ last.ent.shape = "dict"
    /\ last.t - last.ent.ts > CACHE_TTL
    /\ ~last.ret.hit
    /\ cache[last.aid] = last.ent
    /\ \E aid \in ArtistIds \ {last.aid} : cache[aid].shape = "dict"

\* C30: the primary_artist_id of a track's output record, when it is not
\* empty, is the id of the artist the catalog tier weighted as primary: the
\* artist at list index 0, whose tags count 1.0 each.
C30_PrimaryIdIsPrimaryWeighted ==
    (last.op = "track" /\ ~last.raised /\ last.primary_id # "") =>
        /\ TrackArtists(last.tr)[1].id = last.primary_id
        /\ \A k \in 1..Len(last.evidence) :
               (/\ last.evidence[k].tier = "spotify_artist"
                /\ TrackArtists(last.tr)[last.evidence[k].idx + 1].id = last.primary_id)
                   => ItemWeight(last.evidence[k])
                          = WEIGHTS_SOURCE("spotify_artist") * ARTIST_WEIGHTS("primary")

====
